---- MODULE Spec2Model ----
(***************************************************************************)
(* Case-file import pipeline: the validators of validation.py and app.py,  *)
(* the two import engines (app.py insert_data_to_db, excel_loader.py       *)
(* load_case_file_to_db) and the SQLite store they write to.               *)
(*                                                                         *)
(* Conventions of the model                                                *)
(*  - a cell is a tagged record: NA (empty, pandas NaN/NaT/None), Str      *)
(*    (text), Num (number) or Ts (timestamp);                              *)
(*  - a title text is the sequence of its pieces: ":" is a colon, " " is a *)
(*    run of blanks, any other piece is a run of characters that holds no  *)
(*    colon and neither starts nor ends with a blank;                      *)
(*  - a date text is [fmt, t]: the notation it is written in and the       *)
(*    instant it denotes; parsing succeeds or fails on the notation;       *)
(*  - instants are whole seconds; hour quantities (billing-hrs, the        *)
(*    calculated duration) are exact and counted in 1/3600 h, so           *)
(*    (stop - start).total_seconds() / 3600 is stop - start and the        *)
(*    tolerance 0.01 is 36.  The inputs keep clear of a difference of      *)
(*    exactly 0.01 h, where the program's binary floats may round either   *)
(*    way;                                                                 *)
(*  - a DataFrame is [columns, rows]; the free-text columns from, to, cc,  *)
(*    content, attachments, synopsis and comments are carried through      *)
(*    unread, so a row holds only the cells the code inspects.             *)
(***************************************************************************)
EXTENDS Integers, Sequences, FiniteSets, TLC

VARIABLES
    case_file_entries,  \* rows of the store's table case_file_entries
    billing_entries,    \* rows of the store's table billing_entries
    before,             \* the store as it was when the last operation began
    request,            \* the last operation's arguments
    results,            \* what the last operation returned
    open_connections,   \* store connections opened and not yet closed
    imports,            \* number of import operations run so far
    connections,        \* store connections the last operation opened
    stdout,             \* the responses printed so far, each with its line
    lines_read          \* number of input lines the server loop has read

vars == <<case_file_entries, billing_entries, before, request, results,
          open_connections, imports, connections, stdout, lines_read>>

----------------------------------------------------------------------------
(* Bounds of the model *)

MaxRows == 2
MaxLines == 2
MaxSampleRows == 6
MaxImports == 2

----------------------------------------------------------------------------
(* Cells *)

NA == [k |-> "na"]
Str(s) == [k |-> "str", v |-> s]
Num(n) == [k |-> "num", v |-> n]
Ts(t) == [k |-> "ts", v |-> t]

\* pd.isna(x); None, NaN and NaT are all NA
isna(c) == c.k = "na"

\* isinstance(x, (pd.Timestamp, datetime))
IsTimestamp(c) == c.k = "ts"

\* a date text: its notation and the instant it denotes
DateText(fmt, t) == Str([fmt |-> fmt, t |-> t])

SecondsPerHour == 3600
Hours(h) == h * SecondsPerHour

\* abs(n)
Abs(n) == IF n < 0 THEN 0 - n ELSE n

----------------------------------------------------------------------------
(* validation.py: vocabularies *)

VALID_ENTRY_TYPES ==
    { "email-type", "doc-type", "meeting-type", "phone-call-type",
      "case-note-type", "billing-type", "other-type" }

BILLING_CATEGORY_NAMES ==
    { "Hearing Preparation", "Hearing", "Hearing Notes & Follow-up",
      "Billing & Invoicing", "Draft correspondence", "Draft email",
      "Draft documents", "Draft records", "Review correspondence",
      "Review email", "Review documents", "Review records",
      "Client Interview Preparation", "Client Interview",
      "Client Interview Notes & Follow-up", "Client Meeting Preparation",
      "Client Meeting", "Client Meeting Notes & Follow-up",
      "Client Status Update Preparation", "Client Status Update",
      "Client Status Update Notes & Follow-up",
      "Conference with Attorney Preparation", "Conference with Attorney",
      "Conference with Attorney Notes & Follow-up",
      "Settlement Agreement Drafting",
      "Settlement Agreement Review & Analysis",
      "Court Appearance Preparation", "Court Appearance",
      "Court Appearance Notes & Follow-up", "Mediation Meeting Preparation",
      "Mediation Meeting", "Mediation Meeting Notes & Follow-up",
      "Discovery Drafting", "Discovery Review", "Discovery Production",
      "Legal Research", "Settlement Preparation", "Settlement",
      "Settlement Notes & Follow-up", "Mediation Preparation", "Mediation",
      "Mediation Notes & Follow-up",
      "Meeting with Opposing Counsel Preparation",
      "Meeting with Opposing Counsel",
      "Meeting with Opposing Counsel Notes & Follow-up",
      "Phone Call Preparation", "Phone Call", "Phone Call Notes & Follow-up",
      "Prepare Report", "Review Report",
      "Team/Case Strategy Meeting Preparation", "Team/Case Strategy Meeting",
      "Team/Case Strategy Meeting Notes & Follow-up", "Trial Preparation",
      "Travel Time" }

CPCS_BILLING_CATEGORY_NAMES ==
    { "Client Interview", "Conference With Attorney", "Court Appearance",
      "Examine/Test Material", "Phone Calls", "Prepare Report",
      "Review Documents", "Travel Time" }

\* a category name as a text: one piece (no name holds a colon)
BILLING_CATEGORIES == { <<n>> : n \in BILLING_CATEGORY_NAMES }
CPCS_BILLING_CATEGORIES == { <<n>> : n \in CPCS_BILLING_CATEGORY_NAMES }

required_columns ==
    << "type", "date", "title", "from", "to", "cc", "content",
       "attachments", "synopsis", "comments" >>

billing_columns == << "billing-start", "billing-stop", "billing-hrs" >>

----------------------------------------------------------------------------
(* Text operations on titles *)

\* ':' in title
HasColon(t) == \E i \in 1..Len(t) : t[i] = ":"

\* index of the first colon of a text that has one
FirstColon(t) == CHOOSE i \in 1..Len(t) :
                    t[i] = ":" /\ \A j \in 1..(i - 1) : t[j] # ":"

\* str.strip(): drop the leading and the trailing blanks
RECURSIVE lstrip(_)
lstrip(t) == IF t # <<>> /\ Head(t) = " " THEN lstrip(Tail(t)) ELSE t

RECURSIVE rstrip(_)
rstrip(t) == IF t # <<>> /\ t[Len(t)] = " "
             THEN rstrip(SubSeq(t, 1, Len(t) - 1)) ELSE t

strip(t) == rstrip(lstrip(t))

\* title.split(':', 1)[1]: everything after the first colon
AfterFirstColon(t) == SubSeq(t, FirstColon(t) + 1, Len(t))

----------------------------------------------------------------------------
(* Parsing of date texts *)

US_FORMAT == "%m/%d/%Y %I:%M %p"
ISO_FORMAT == "%Y-%m-%d %H:%M:%S"
NO_FORMAT == "unparseable"

\* datetime.strptime(str(x), "%m/%d/%Y %I:%M %p") returns (does not raise
\* ValueError): only a text in exactly that notation parses
strptime_ok(c) == c.k = "str" /\ c.v.fmt = US_FORMAT

\* pd.to_datetime(x) returns (does not raise): the notation is inferred, so
\* any recognisable notation parses
to_datetime_ok(c) == c.k = "str" /\ c.v.fmt \in {US_FORMAT, ISO_FORMAT}

\* the instant of a timestamp, or of a text that parsed
Instant(c) == IF IsTimestamp(c) THEN c.v ELSE c.v.t

----------------------------------------------------------------------------
(* DataFrame access *)

\* row.get(col): None when the frame has no such column
Cell(df, row, col) == IF col \in df.columns THEN row[col] ELSE NA

\* row['type'] == 'billing-type'
IsBillingRow(row) == row["type"] = Str("billing-type")

\* the per-row records of f over the rows of df, in row order; idx is the
\* 0-based index label of the row (enumerate / iterrows)
RECURSIVE CollectFrom(_, _, _)
CollectFrom(df, f(_, _), i) ==
    IF i > Len(df.rows) THEN <<>>
    ELSE f(i - 1, df.rows[i]) \o CollectFrom(df, f, i + 1)

Collect(df, f(_, _)) == CollectFrom(df, f, 1)

\* a slip: the last n are kept
Take_from_end(s, n) ==
    SubSeq(s, IF Len(s) < n THEN 1 ELSE Len(s) - n + 1, Len(s))

\* s[:n]
Take(s, n) == SubSeq(s, 1, IF Len(s) < n THEN Len(s) ELSE n)

----------------------------------------------------------------------------
(* validation.py: validate_case_file_data *)

\* an exception leaving a function
Raise(e) == [raised |-> e]
Return(v) == [value |-> v]
Raised(r) == "raised" \in DOMAIN r

\* a slip: the loop over the required columns stops at the first one absent
MissingColumns_first_only(df) ==
    Take(SelectSeq(required_columns, LAMBDA col : col \notin df.columns), 1)

\* for col in required_columns: if col not in df.columns: append
MissingColumns(df) ==
    SelectSeq(required_columns, LAMBDA col : col \notin df.columns)

\* a slip: only an empty type is turned down
IsInvalidType_empty_only(c) == isna(c)

\* pd.isna(entry_type) or entry_type not in VALID_ENTRY_TYPES
IsInvalidType(c) == isna(c) \/ c.k # "str" \/ c.v \notin VALID_ENTRY_TYPES

TypeErrorsOfRow(idx, row) ==
    IF IsInvalidType(row["type"])
    THEN << [row |-> idx + 2, type |-> row["type"]] >>
    ELSE <<>>

is_cpcs == FALSE

\* the category the validator derives from a title, when it derives one:
\* only a present title with a colon is looked at
ValidationDerives(title) == ~isna(title) /\ HasColon(title.v)
ValidationCategory(title) == strip(AfterFirstColon(title.v))

CategoryErrorsOfRow(idx, row) ==
    IF IsBillingRow(row) /\ ValidationDerives(row["title"])
    THEN LET category == ValidationCategory(row["title"])
         IN IF is_cpcs /\ category \notin CPCS_BILLING_CATEGORIES
            THEN << [row |-> idx + 2, category |-> category,
                     allowed_categories |-> "CPCS"] >>
            ELSE IF ~is_cpcs /\ category \notin BILLING_CATEGORIES
            THEN << [row |-> idx + 2, category |-> category,
                     allowed_categories |-> "General billing categories"] >>
            ELSE <<>>
    ELSE <<>>

\* ':' in title raises TypeError when the title is a number
CategoryCheckRaises(df) ==
    \E i \in 1..Len(df.rows) :
        IsBillingRow(df.rows[i]) /\ df.rows[i]["title"].k = "num"

Tolerance == 36

\* the try block of the date loop for one row; any ValueError or TypeError
\* inside it becomes one record and ends the row
DateErrorsOfRow(df, idx, row) ==
    LET date == row["date"]
        billing_start == Cell(df, row, "billing-start")
        billing_stop == Cell(df, row, "billing-stop")
        billing_hrs == Cell(df, row, "billing-hrs")
        caught == << [row |-> idx + 2, date |-> date, error |-> "ValueError"] >>
    IN  IF isna(date) THEN <<>>
        ELSE IF ~IsTimestamp(date) /\ ~strptime_ok(date) THEN caught
        ELSE IF ~IsBillingRow(row) THEN <<>>
        ELSE IF isna(billing_start) \/ isna(billing_stop) THEN <<>>
        ELSE IF ~IsTimestamp(billing_start) /\ ~to_datetime_ok(billing_start)
             THEN caught
        ELSE IF ~IsTimestamp(billing_stop) /\ ~to_datetime_ok(billing_stop)
             THEN caught
        ELSE LET start_dt == Instant(billing_start)
                 stop_dt == Instant(billing_stop)
                 duration == stop_dt - start_dt
             IN  (IF start_dt >= stop_dt
                  THEN << [row |-> idx + 2, issue |-> "billing_sequence",
                           start |-> billing_start, stop |-> billing_stop] >>
                  ELSE <<>>)
                 \o
                 (IF ~isna(billing_hrs)
                     /\ Abs(duration - billing_hrs.v) > Tolerance
                  THEN << [row |-> idx + 2, issue |-> "billing_duration",
                           calculated |-> duration,
                           provided |-> billing_hrs.v] >>
                  ELSE <<>>)

SampleSize == 5

\* a slip: the date check does not clear validation["valid"]
StillValid_but_for_dates(invalid_types, billing_category_errors, date_errors) ==
    /\ invalid_types = <<>>
    /\ billing_category_errors = <<>>

\* validation["valid"] is cleared by each check that found something
StillValid(invalid_types, billing_category_errors, date_errors) ==
    /\ invalid_types = <<>>
    /\ billing_category_errors = <<>>
    /\ date_errors = <<>>

validate_case_file_data(df) ==
    LET missing == MissingColumns(df)
    IN  IF missing # <<>>
        THEN [valid |-> FALSE, missing_columns |-> missing,
              invalid_types |-> <<>>, date_format_errors |-> <<>>,
              billing_category_errors |-> <<>>, sample_errors |-> <<>>]
        ELSE IF CategoryCheckRaises(df) THEN Raise("TypeError")
        ELSE LET invalid_types == Collect(df, TypeErrorsOfRow)
                 billing_category_errors == Collect(df, CategoryErrorsOfRow)
                 date_errors ==
                    Collect(df, LAMBDA idx, row : DateErrorsOfRow(df, idx, row))
             IN  [valid |-> StillValid(invalid_types,
                                       billing_category_errors, date_errors),
                  missing_columns |-> <<>>,
                  invalid_types |-> invalid_types,
                  date_format_errors |-> date_errors,
                  billing_category_errors |-> billing_category_errors,
                  sample_errors |->
                     [invalid_types |-> Take(invalid_types, SampleSize),
                      date_format_errors |-> Take(date_errors, SampleSize),
                      billing_category_errors |->
                         Take(billing_category_errors, SampleSize)]]

----------------------------------------------------------------------------
(* app.py: validate_case_file_data *)

AppTypeErrorsOfRow(i, row) ==
    IF IsInvalidType(row["type"])
    THEN << [row |-> i + 1, issue |-> row["type"]] >>
    ELSE <<>>

app_validate_case_file_data(df) ==
    LET missing == MissingColumns(df)
    IN  IF missing # <<>>
        THEN [valid |-> FALSE, missing_columns |-> missing,
              invalid_entries |-> <<>>]
        ELSE LET invalid_entries == Collect(df, AppTypeErrorsOfRow)
             IN  [valid |-> invalid_entries = <<>>,
                  missing_columns |-> <<>>,
                  invalid_entries |-> invalid_entries]

----------------------------------------------------------------------------
(* Import-side derivation of the billing category *)

\* app.py create_billing_entry: ':' in title raises TypeError on an empty
\* (NaN) or numeric title
create_billing_entry_category(title) ==
    IF title.k # "str" THEN Raise("TypeError")
    ELSE IF HasColon(title.v) THEN Return(strip(AfterFirstColon(title.v)))
    ELSE Return(title.v)

\* excel_loader.py load_case_file_to_db: the same rule, written again
load_case_file_billing_category(title) ==
    IF title.k # "str" THEN Raise("TypeError")
    ELSE IF HasColon(title.v) THEN Return(strip(AfterFirstColon(title.v)))
    ELSE Return(title.v)

----------------------------------------------------------------------------
(* Frames *)

AllColumns ==
    { required_columns[i] : i \in 1..Len(required_columns) }
        \cup { billing_columns[i] : i \in 1..Len(billing_columns) }

\* the columns whose cells the code inspects
RowColumns ==
    { "type", "date", "title", "billing-start", "billing-stop", "billing-hrs" }

Row(type, date, title, start, stop, hrs) ==
    [c \in RowColumns |->
        CASE c = "type" -> type
          [] c = "date" -> date
          [] c = "title" -> title
          [] c = "billing-start" -> start
          [] c = "billing-stop" -> stop
          [] c = "billing-hrs" -> hrs]

\* a frame has no cell in a column it lacks
Project(row, columns) ==
    [c \in RowColumns |-> IF c \in columns THEN row[c] ELSE NA]

----------------------------------------------------------------------------
(* Row mapper: app.py prepare_data_for_db *)

column_mapping(col) ==
    CASE col = "from" -> "from_party"
      [] col = "to" -> "to_party"
      [] col = "cc" -> "cc_party"
      [] col = "billing-start" -> "billing_start"
      [] col = "billing-stop" -> "billing_stop"
      [] col = "billing-hrs" -> "billing_hrs"
      [] OTHER -> col

date_columns == { "date", "billing_start", "billing_stop" }

\* pd.to_datetime(x, errors='coerce'): a timestamp, or NaT for what is empty
\* or does not parse
to_datetime_coerce(c) ==
    IF IsTimestamp(c) THEN c
    ELSE IF to_datetime_ok(c) THEN Ts(c.v.t)
    ELSE NA

\* the prepared frame: case_id added, columns renamed, date columns coerced
prepare_data_for_db(df, case_id) ==
    [columns |-> { column_mapping(c) : c \in df.columns } \cup { "case_id" },
     rows |->
        [i \in 1..Len(df.rows) |->
            [c \in { column_mapping(x) : x \in RowColumns } |->
                LET src == CHOOSE x \in RowColumns : column_mapping(x) = c
                    cell == df.rows[i][src]
                IN  IF c \in date_columns THEN to_datetime_coerce(cell)
                    ELSE cell]]]

\* data_processing.prepare_data_for_import: the same mapping
prepare_data_for_import(df, case_id) == prepare_data_for_db(df, case_id)

----------------------------------------------------------------------------
(* The store *)

\* PRAGMA table_info(case_file_entries): the provisioned columns
case_file_entries_columns ==
    { "entry_id", "case_id", "type", "date", "title", "from_party",
      "to_party", "cc_party", "content", "attachments", "synopsis",
      "comments", "billing_start", "billing_stop", "billing_hrs" }

\* the rowid the store gives the next row of a table: one more than the
\* largest in it
RECURSIVE MaxOf(_, _)
MaxOf(rows, field) ==
    IF rows = <<>> THEN 0
    ELSE LET m == MaxOf(Tail(rows), field)
         IN  IF Head(rows)[field] > m THEN Head(rows)[field] ELSE m

NextRowId(rows, field) == MaxOf(rows, field) + 1

\* val.strftime("%Y-%m-%d %H:%M:%S") for a timestamp, the value otherwise
Formatted(c) == IF IsTimestamp(c) THEN DateText(ISO_FORMAT, c.v) ELSE c

\* an open transaction: the tables as the connection sees them, the number
\* of statements run, and the exception that ended it, if any
Transaction(entries, billing) ==
    [entries |-> entries, billing |-> billing, statements |-> 0,
     entries_added |-> 0, error |-> "none"]

Failed(tx) == tx.error # "none"
Fail(tx, e) == [tx EXCEPT !.error = e]

\* the store rejects the statement numbered fault (0: none): a constraint, a
\* lock, a value the driver cannot bind (NaT, pd.Timestamp)
StoreRejects(tx, fault) == tx.statements + 1 = fault

\* a slip: the entry is stored without the case it belongs to
INSERT_entry_without_case(tx, case_id, row) ==
    [tx EXCEPT
        !.statements = @ + 1,
        !.entries = Append(@,
            [entry_id |-> NextRowId(tx.entries, "entry_id"),
             case_id |-> 0,
             type |-> row["type"],
             title |-> row["title"]])]

INSERT_entry(tx, case_id, row) ==
    [tx EXCEPT
        !.statements = @ + 1,
        !.entries = Append(@,
            [entry_id |-> NextRowId(tx.entries, "entry_id"),
             case_id |-> case_id,
             type |-> row["type"],
             title |-> row["title"]])]

INSERT_billing(tx, case_id, entry_id, category, start, stop, hrs) ==
    [tx EXCEPT
        !.statements = @ + 1,
        !.billing = Append(@,
            [billing_id |-> NextRowId(tx.billing, "billing_id"),
             case_id |-> case_id,
             entry_id |-> entry_id,
             billing_category |-> category,
             billing_start |-> start,
             billing_stop |-> stop,
             billing_hours |-> hrs])]

----------------------------------------------------------------------------
(* app.py: insert_data_to_db and create_billing_entry *)

\* row[col] of a row of the filtered frame raises KeyError for a column the
\* frame does not have
create_billing_entry(tx, df_columns, case_id, entry_id, row, fault) ==
    LET category == create_billing_entry_category(row["title"])
    IN  IF Raised(category) THEN Fail(tx, category.raised)
        ELSE IF { "billing_start", "billing_stop", "billing_hrs" }
                    \ df_columns # {}
        THEN Fail(tx, "KeyError")
        ELSE IF StoreRejects(tx, fault) THEN Fail(tx, "sqlite3.Error")
        ELSE INSERT_billing(tx, case_id, entry_id, category.value,
                            Formatted(row["billing_start"]),
                            Formatted(row["billing_stop"]),
                            row["billing_hrs"])

\* one turn of the loop over the rows of the filtered frame
InsertRow(tx, df_columns, case_id, row, fault) ==
    IF StoreRejects(tx, fault) THEN Fail(tx, "sqlite3.Error")
    ELSE LET inserted == [INSERT_entry(tx, case_id, row)
                              EXCEPT !.entries_added = @ + 1]
             entry_id == inserted.entries[Len(inserted.entries)].entry_id
         IN  IF row["type"] = Str("billing-type")
             THEN create_billing_entry(inserted, df_columns, case_id,
                                       entry_id, row, fault)
             ELSE inserted

RECURSIVE InsertRowsFrom(_, _, _, _, _, _)
InsertRowsFrom(tx, df, df_columns, case_id, i, fault) ==
    IF Failed(tx) \/ i > Len(df.rows) THEN tx
    ELSE InsertRowsFrom(InsertRow(tx, df_columns, case_id, df.rows[i], fault),
                        df, df_columns, case_id, i + 1, fault)

\* what insert_data_to_db leaves in the store, and what it raises or returns:
\* on an exception the transaction is rolled back and the exception raised
\* again
insert_data_to_db(store, df, case_id, fault) ==
    LET df_columns == df.columns \cap case_file_entries_columns
        tx == InsertRowsFrom(
                Transaction(store.case_file_entries, store.billing_entries),
                df, df_columns, case_id, 1, fault)
    IN  IF Failed(tx)
        THEN [store |-> store, raised |-> tx.error, returned |-> 0]
        ELSE [store |-> [case_file_entries |-> tx.entries,
                         billing_entries |-> tx.billing],
              raised |-> "none", returned |-> tx.entries_added]

----------------------------------------------------------------------------
(* app.py: load_excel_to_db *)

\* file_path.lower(), on the extensions the model uses
lower(ext) == IF ext = ".CSV" THEN ".csv" ELSE ext

\* an operation's outcome: the store it leaves, the dict it returns, and the
\* connections it opened and closed
Outcome(store, returned, opened, closed) ==
    [store |-> store, results |-> returned, opened |-> opened,
     closed |-> closed]

app_load_excel_to_db(store, file, case_id, fault) ==
    LET file_ext == lower(file.ext)
        df == file.df
        validation == app_validate_case_file_data(df)
        inserted == insert_data_to_db(store, prepare_data_for_db(df, case_id),
                                      case_id, fault)
    IN  IF file_ext \notin { ".xlsx", ".xls", ".xlsm" } /\ file_ext # ".csv"
        THEN Outcome(store,
                [success |-> FALSE, message |-> "Unsupported file type",
                 entries_added |-> 0, errors |-> <<>>], 0, 0)
        ELSE IF ~validation.valid
        THEN Outcome(store,
                [success |-> FALSE, message |-> "Data validation failed",
                 entries_added |-> 0, errors |-> validation], 0, 0)
        ELSE IF inserted.raised # "none"
        THEN Outcome(inserted.store,
                [success |-> FALSE, message |-> "Error importing data",
                 entries_added |-> 0,
                 errors |-> << inserted.raised >>], 1, 0)
        ELSE Outcome(inserted.store,
                [success |-> TRUE, message |-> "Successfully imported",
                 entries_added |-> inserted.returned, errors |-> <<>>], 1, 1)

----------------------------------------------------------------------------
(* excel_loader.py: load_case_file_to_db *)

\* DataFrame.to_sql(..., if_exists='append'): the rows are inserted in a
\* transaction of pandas' own, committed when the last row is in and rolled
\* back when a row is rejected
RECURSIVE to_sql_from(_, _, _, _, _)
to_sql_from(tx, df, case_id, i, fault) ==
    IF Failed(tx) \/ i > Len(df.rows) THEN tx
    ELSE to_sql_from(
            IF StoreRejects(tx, fault) THEN Fail(tx, "sqlite3.Error")
            ELSE INSERT_entry(tx, case_id, df.rows[i]),
            df, case_id, i + 1, fault)

to_sql(tx, df, case_id, fault) == to_sql_from(tx, df, case_id, 1, fault)

\* SELECT last_insert_rowid(): the rowid of the connection's last insert, 0
\* when it made none
last_insert_rowid(tx, inserted) ==
    IF inserted = 0 THEN 0 ELSE tx.entries[Len(tx.entries)].entry_id

\* a slip: the position counted from 1
billing_entry_id_from_one(first_id, orig_idx) == first_id + orig_idx + 1

\* entry_id = first_id + orig_idx
billing_entry_id(first_id, orig_idx) == first_id + orig_idx

\* one turn of the loop over the billing rows; orig_idx is the position of
\* the row in the frame
LoaderBillingRow(tx, df, case_id, first_id, orig_idx, row, fault) ==
    LET entry_id == billing_entry_id(first_id, orig_idx)
        billing_category == load_case_file_billing_category(row["title"])
    IN  IF Raised(billing_category) THEN Fail(tx, billing_category.raised)
        ELSE IF StoreRejects(tx, fault) THEN Fail(tx, "sqlite3.Error")
        ELSE INSERT_billing(tx, case_id, entry_id, billing_category.value,
                            Cell(df, row, "billing-start"),
                            Cell(df, row, "billing-stop"),
                            Cell(df, row, "billing-hrs"))

RECURSIVE LoaderBillingFrom(_, _, _, _, _, _)
LoaderBillingFrom(tx, df, case_id, first_id, i, fault) ==
    IF Failed(tx) \/ i > Len(df.rows) THEN tx
    ELSE LoaderBillingFrom(
            IF IsBillingRow(df.rows[i])
            THEN LoaderBillingRow(tx, df, case_id, first_id, i - 1,
                                  df.rows[i], fault)
            ELSE tx,
            df, case_id, first_id, i + 1, fault)

load_case_file_to_db(store, df, case_id, fault) ==
    LET prepared_df == prepare_data_for_import(df, case_id)
        begun == Transaction(store.case_file_entries, store.billing_entries)
        written == to_sql(begun, prepared_df, case_id, fault)
        entries_added == Len(prepared_df.rows)
        last_id == last_insert_rowid(written, entries_added)
        first_id == last_id - entries_added + 1
        billed == LoaderBillingFrom(written, df, case_id, first_id, 1, fault)
    IN  IF Failed(written)
        THEN [store |-> store,
              results |-> [success |-> FALSE, entries_added |-> 0,
                           billing_entries_added |-> 0,
                           errors |-> << written.error >>]]
        ELSE IF Failed(billed)
        THEN \* conn.rollback() undoes the billing inserts; the entries were
             \* committed by to_sql
             [store |-> [case_file_entries |-> written.entries,
                         billing_entries |-> store.billing_entries],
              results |-> [success |-> FALSE, entries_added |-> entries_added,
                           billing_entries_added |-> 0,
                           errors |-> << billed.error >>]]
        ELSE [store |-> [case_file_entries |-> billed.entries,
                         billing_entries |-> billed.billing],
              results |-> [success |-> TRUE, entries_added |-> entries_added,
                           billing_entries_added |->
                              Len(billed.billing) - Len(store.billing_entries),
                           errors |-> <<>>]]

----------------------------------------------------------------------------
(* excel_loader.py: identify_file_type and load_excel_to_db *)

\* a slip: what is not a spreadsheet is read as delimited text
identify_file_type_default_csv(file) ==
    LET ext == lower(file.ext)
    IN  IF ext \in { ".xlsx", ".xls", ".xlsm" } THEN "excel" ELSE "csv"

identify_file_type(file) ==
    LET ext == lower(file.ext)
    IN  IF ext \in { ".xlsx", ".xls", ".xlsm" } THEN "excel"
        ELSE IF ext = ".csv" THEN "csv"
        ELSE "unknown"

\* a slip: the report is not looked at before the load
loader_load_excel_to_db_ungated(store, file, case_id, fault) ==
    LET import_results == load_case_file_to_db(store, file.df, case_id, fault)
    IN  IF identify_file_type(file) = "unknown"
        THEN Outcome(store,
                [success |-> FALSE, message |-> "Error importing data",
                 entries_added |-> 0,
                 errors |-> << "Unsupported file type" >>], 0, 0)
        ELSE Outcome(import_results.store,
                [success |-> import_results.results.success,
                 message |-> IF import_results.results.success
                             THEN "Successfully imported" ELSE "",
                 entries_added |-> import_results.results.entries_added,
                 billing_entries_added |->
                    import_results.results.billing_entries_added,
                 errors |-> import_results.results.errors], 1, 1)

loader_load_excel_to_db(store, file, case_id, fault) ==
    LET df == file.df
        validation == validate_case_file_data(df)
        import_results == load_case_file_to_db(store, df, case_id, fault)
    IN  IF identify_file_type(file) = "unknown"
        THEN Outcome(store,
                [success |-> FALSE, message |-> "Error importing data",
                 entries_added |-> 0,
                 errors |-> << "Unsupported file type" >>], 0, 0)
        ELSE IF Raised(validation)
        THEN Outcome(store,
                [success |-> FALSE, message |-> "Error importing data",
                 entries_added |-> 0,
                 errors |-> << validation.raised >>], 0, 0)
        ELSE IF ~validation.valid
        THEN Outcome(store,
                [success |-> FALSE, message |-> "Data validation failed",
                 entries_added |-> 0, errors |-> validation], 0, 0)
        ELSE Outcome(import_results.store,
                [success |-> import_results.results.success,
                 message |-> IF import_results.results.success
                             THEN "Successfully imported" ELSE "",
                 entries_added |-> import_results.results.entries_added,
                 billing_entries_added |->
                    import_results.results.billing_entries_added,
                 errors |-> import_results.results.errors], 1, 1)

----------------------------------------------------------------------------
(* Input tables *)

T0900 == Hours(9)
T1000 == Hours(10)

GoodDate == DateText(US_FORMAT, T0900)
IsoDate == DateText(ISO_FORMAT, T0900)

ClientMeetingTitle == Str(<< "Client Meeting", ":", " ", "Client Meeting" >>)
NestedTitle == Str(<< "A", ":", " ", "B", ":", " ", "C" >>)
PaddedTitle == Str(<< "Call", " ", ":", " ", "Phone Call", " " >>)
CpcsOnlyTitle == Str(<< "Call", ":", " ", "Phone Calls" >>)
NoColonTitle == Str(<< "Lunch" >>)
NoColonCategoryTitle == Str(<< "Travel Time" >>)
NumericTitle == Num(2024)

Titles ==
    { ClientMeetingTitle, NestedTitle, PaddedTitle, CpcsOnlyTitle,
      NoColonTitle, NoColonCategoryTitle, NumericTitle, NA }

\* billing-start, billing-stop, billing-hrs of a row
InOrder == << Ts(T0900), Ts(T1000), Num(Hours(1)) >>
HalfHourClaimed == << Ts(T0900), Ts(T1000), Num(Hours(1) \div 2) >>
OutOfOrder == << Ts(T1000), Ts(T0900), NA >>
OutOfOrderWithHours == << Ts(T1000), Ts(T0900), Num(Hours(1)) >>

BillingTimes ==
    { InOrder, HalfHourClaimed, OutOfOrder, OutOfOrderWithHours,
      << Ts(T0900), Ts(T1000), NA >>,
      << Ts(T0900), Ts(T0900), NA >>,
      << DateText(ISO_FORMAT, T0900), DateText(US_FORMAT, T0900), NA >>,
      << DateText(NO_FORMAT, T0900), Ts(T1000), NA >>,
      << Ts(T0900), NA, Num(Hours(1)) >>,
      << NA, NA, NA >> }

BillingRow(date, title, times) ==
    Row(Str("billing-type"), date, title, times[1], times[2], times[3])

OtherRow(type, date) == Row(type, date, NoColonTitle, NA, NA, NA)

\* rows of every kind: billing rows vary the title, the times and the date
ValidationRows ==
    { OtherRow(Str("email-type"), GoodDate), OtherRow(Str("email-type"), NA),
      OtherRow(Str("email-type"), IsoDate), OtherRow(Str("memo"), GoodDate),
      OtherRow(NA, GoodDate) }
    \cup { BillingRow(GoodDate, t, InOrder) : t \in Titles }
    \cup { BillingRow(GoodDate, ClientMeetingTitle, b) : b \in BillingTimes }
    \cup { BillingRow(NA, ClientMeetingTitle, OutOfOrder),
           BillingRow(NA, ClientMeetingTitle, HalfHourClaimed),
           BillingRow(IsoDate, ClientMeetingTitle, OutOfOrder),
           BillingRow(Ts(T0900), ClientMeetingTitle, OutOfOrderWithHours) }

\* rows for the frames that lack a column
FewRows ==
    { OtherRow(Str("email-type"), GoodDate), OtherRow(Str("memo"), GoodDate),
      BillingRow(GoodDate, ClientMeetingTitle, HalfHourClaimed) }

LackingColumnSets ==
    { AllColumns \ { "billing-start", "billing-stop", "billing-hrs" },
      AllColumns \ { "billing-hrs" },
      AllColumns \ { "date" },
      AllColumns \ { "type", "comments" } }

\* the sequences over S of length n
RECURSIVE SeqsOfLen(_, _)
SeqsOfLen(S, n) ==
    IF n = 0 THEN { <<>> }
    ELSE { Append(s, x) : s \in SeqsOfLen(S, n - 1), x \in S }

SeqsUpTo(S, n) == UNION { SeqsOfLen(S, m) : m \in 0..n }

Frames(rows, columns) ==
    { [columns |-> columns, rows |-> rs] :
        rs \in SeqsUpTo({ Project(r, columns) : r \in rows }, MaxRows) }

ValidationFrames ==
    Frames(ValidationRows, AllColumns)
        \cup UNION { Frames(FewRows, cs) : cs \in LackingColumnSets }

----------------------------------------------------------------------------
(* The validators as operations on a loaded table *)

NoStore == [case_file_entries |-> <<>>, billing_entries |-> <<>>]

InitValidate ==
    /\ case_file_entries = <<>>
    /\ billing_entries = <<>>
    /\ before = NoStore
    /\ request \in { [op |-> "validate", df |-> df] : df \in ValidationFrames }
    /\ results = [op |-> "none"]
    /\ open_connections = 0
    /\ imports = 0
    /\ connections = 0
    /\ stdout = <<>>
    /\ lines_read = 0

\* validation.validate_case_file_data(df)
Validate ==
    /\ results' = [op |-> "validation.validate_case_file_data",
                   validation |-> validate_case_file_data(request.df)]
    /\ UNCHANGED <<case_file_entries, billing_entries, before, request,
                   open_connections, imports, connections, stdout, lines_read>>

\* app.validate_case_file_data(df)
ValidateApp ==
    /\ results' = [op |-> "app.validate_case_file_data",
                   validation |-> app_validate_case_file_data(request.df)]
    /\ UNCHANGED <<case_file_entries, billing_entries, before, request,
                   open_connections, imports, connections, stdout, lines_read>>

\* the category each billing row with a text title gets from the validator
\* and from the two import engines
DerivedCategories(df) ==
    [i \in { j \in 1..Len(df.rows) :
                IsBillingRow(df.rows[j]) /\ df.rows[j]["title"].k = "str" } |->
        LET title == df.rows[i]["title"]
        IN  [title |-> title.v,
             validation |-> IF ValidationDerives(title)
                            THEN Return(ValidationCategory(title))
                            ELSE [skipped |-> TRUE],
             create_billing_entry |-> create_billing_entry_category(title),
             load_case_file_to_db |-> load_case_file_billing_category(title)]]

DeriveCategories ==
    /\ results' = [op |-> "billing_category",
                   derived |-> DerivedCategories(request.df)]
    /\ UNCHANGED <<case_file_entries, billing_entries, before, request,
                   open_connections, imports, connections, stdout, lines_read>>

\* a slip: the date loop writes the parsed date back into the table
TableAfterValidation_with_dates_parsed(df) ==
    [df EXCEPT !.rows =
        [i \in 1..Len(df.rows) |->
            [df.rows[i] EXCEPT !["date"] =
                IF strptime_ok(@) THEN Ts(@.v.t) ELSE @]]]

\* the table the caller holds once validate_case_file_data has returned or
\* raised: the function reads df.columns, df['type'] and the rows that
\* iterrows() hands out, and assigns to none of them
TableAfterValidation(df) ==
    [columns |-> df.columns,
     rows |-> [i \in 1..Len(df.rows) |->
                 [c \in DOMAIN df.rows[i] |-> df.rows[i][c]]]]

\* validation.validate_case_file_data(df), called twice on the table
ValidateTwice ==
    /\ LET first == validate_case_file_data(request.df)
           df1 == TableAfterValidation(request.df)
           second == validate_case_file_data(df1)
           df2 == TableAfterValidation(df1)
       IN  results' = [op |-> "validation.validate_case_file_data twice",
                       first |-> first, second |-> second,
                       table |-> df2]
    /\ UNCHANGED <<case_file_entries, billing_entries, before, request,
                   open_connections, imports, connections, stdout, lines_read>>

NextValidate == Validate \/ ValidateApp \/ DeriveCategories \/ ValidateTwice

SpecValidate == InitValidate /\ [][NextValidate]_vars

----------------------------------------------------------------------------
(* The validator on long tables *)

\* a row with a type error and a date error, a row with a category error
\* and two date errors, and a row with none
SampleRows ==
    { OtherRow(Str("memo"), IsoDate),
      BillingRow(GoodDate, CpcsOnlyTitle, OutOfOrderWithHours),
      OtherRow(Str("email-type"), GoodDate) }

SampleFrames ==
    { [columns |-> AllColumns, rows |-> rs] :
        rs \in SeqsUpTo(SampleRows, MaxSampleRows) }

InitSamples ==
    /\ case_file_entries = <<>>
    /\ billing_entries = <<>>
    /\ before = NoStore
    /\ request \in { [op |-> "validate", df |-> df] : df \in SampleFrames }
    /\ results = [op |-> "none"]
    /\ open_connections = 0
    /\ imports = 0
    /\ connections = 0
    /\ stdout = <<>>
    /\ lines_read = 0

NextSamples == Validate

SpecSamples == InitSamples /\ [][NextSamples]_vars

----------------------------------------------------------------------------
(* The import operations on the store *)

\* rows of the files imported
ImportRows ==
    { OtherRow(Str("email-type"), GoodDate),
      BillingRow(GoodDate, ClientMeetingTitle, InOrder),
      BillingRow(GoodDate, NoColonTitle, OutOfOrder),
      BillingRow(NA, PaddedTitle, OutOfOrderWithHours),
      BillingRow(GoodDate, NA, InOrder) }

ImportFrames ==
    Frames(ImportRows, AllColumns)
        \cup Frames(FewRows, AllColumns \ { "date" })
        \cup Frames(FewRows, AllColumns
                        \ { "billing-start", "billing-stop", "billing-hrs" })

ImportFiles ==
    { [ext |-> ".xlsx", df |-> df] : df \in ImportFrames }
        \cup { [ext |-> e, df |-> df] :
                 e \in { ".CSV", ".txt" },
                 df \in { [columns |-> AllColumns,
                           rows |-> << BillingRow(GoodDate, ClientMeetingTitle,
                                                  InOrder) >>] } }

CaseIds == { 1, 2 }

\* the store may reject any one statement of an import, or none
Faults == 0..(2 * MaxRows)

Store == [case_file_entries |-> case_file_entries,
          billing_entries |-> billing_entries]

\* the store as provisioned: both tables empty
Init ==
    /\ case_file_entries = <<>>
    /\ billing_entries = <<>>
    /\ before = NoStore
    /\ request = [op |-> "none"]
    /\ results = [op |-> "none"]
    /\ open_connections = 0
    /\ imports = 0
    /\ connections = 0
    /\ stdout = <<>>
    /\ lines_read = 0

Completes(op, file, case_id, outcome) ==
    /\ imports < MaxImports
    /\ imports' = imports + 1
    /\ before' = Store
    /\ request' = [op |-> op, file |-> file, case_id |-> case_id]
    /\ case_file_entries' = outcome.store.case_file_entries
    /\ billing_entries' = outcome.store.billing_entries
    /\ results' = outcome.results
    /\ open_connections' = open_connections + outcome.opened - outcome.closed
    /\ connections' = outcome.opened
    /\ UNCHANGED <<stdout, lines_read>>

\* app.load_excel_to_db(file_path, db_path, case_id)
AppLoadExcelToDb ==
    \E file \in ImportFiles, case_id \in CaseIds, fault \in Faults :
        Completes("app.load_excel_to_db", file, case_id,
                  app_load_excel_to_db(Store, file, case_id, fault))

\* excel_loader.load_excel_to_db(file_path, db_path, case_id)
LoaderLoadExcelToDb ==
    \E file \in ImportFiles, case_id \in CaseIds, fault \in Faults :
        Completes("excel_loader.load_excel_to_db", file, case_id,
                  loader_load_excel_to_db(Store, file, case_id, fault))

Next == AppLoadExcelToDb \/ LoaderLoadExcelToDb

Spec == Init /\ [][Next]_vars

----------------------------------------------------------------------------
(* Properties of the import operations *)

ImportRan == request.op # "none"

\* the rows of the file of the last import
Batch == request.file.df.rows

\* the rows the last operation added to a table
Added(now, was) == SubSeq(now, Len(was) + 1, Len(now))
NewEntries == Added(case_file_entries, before.case_file_entries)
NewBilling == Added(billing_entries, before.billing_entries)

\* the last operation kept what was in the store
KeptOld ==
    /\ SubSeq(case_file_entries, 1, Len(before.case_file_entries))
         = before.case_file_entries
    /\ SubSeq(billing_entries, 1, Len(before.billing_entries))
         = before.billing_entries

BillingRowsOf(rows) == { i \in 1..Len(rows) : IsBillingRow(rows[i]) }

\* C1 (as claimed): an import commits all the entry rows and all the billing
\* rows of its file, or none of them; after an import that failed, no row of
\* the batch is in the store.
C1_ImportAtomic ==
    ImportRan =>
        /\ KeptOld
        /\ \/ Store = before
           \/ /\ Len(NewEntries) = Len(Batch)
              /\ Len(NewBilling) = Cardinality(BillingRowsOf(Batch))
        /\ ~results.success => Store = before

\* C2 (as claimed): an import that fails returns success = false and
\* entries_added = 0, with the exception's message in errors when the failure
\* was in the write phase; never a count of rows inserted before the rollback.
C2_FailureReportsNothingAdded ==
    (ImportRan /\ ~results.success) =>
        /\ results.entries_added = 0
        /\ results.message \notin
                { "Data validation failed", "Unsupported file type" }
             => results.errors # <<>>

\* the billing rows that reference an entry
BillingOf(entry_id) ==
    { j \in 1..Len(billing_entries) :
        billing_entries[j].entry_id = entry_id }

\* C3: after a successful import, the i-th row of the file is the i-th entry
\* added; a billing-type row has exactly one billing entry, which carries the
\* entry's generated id, the import's case_id and the category of the row's
\* title; any other row has none; no billing entry was added for anything else.
C3_BillingLinkage ==
    (ImportRan /\ results.success) =>
        /\ KeptOld
        /\ Len(NewEntries) = Len(Batch)
        /\ \A i, j \in 1..Len(case_file_entries) :
              case_file_entries[i].entry_id = case_file_entries[j].entry_id
                 => i = j
        /\ \A i \in 1..Len(Batch) :
              LET entry == NewEntries[i]
                  linked == BillingOf(entry.entry_id)
              IN  /\ entry.type = Batch[i]["type"]
                  /\ entry.title = Batch[i]["title"]
                  /\ entry.case_id = request.case_id
                  /\ Cardinality(linked) =
                        IF IsBillingRow(Batch[i]) THEN 1 ELSE 0
                  /\ \A j \in linked :
                        /\ j > Len(before.billing_entries)
                        /\ billing_entries[j].case_id = request.case_id
                        /\ billing_entries[j].billing_category =
                              IF HasColon(entry.title.v)
                              THEN strip(AfterFirstColon(entry.title.v))
                              ELSE entry.title.v
        /\ Len(NewBilling) = Cardinality(BillingRowsOf(Batch))

\* C3 witness: a successful import into a store that already holds entries,
\* of a file whose second row is a billing row and whose first is not.
C3_Witness ==
    /\ ImportRan
    /\ results.success
    /\ request.op = "excel_loader.load_excel_to_db"
    /\ before.case_file_entries # <<>>
    /\ Len(Batch) = 2
    /\ ~IsBillingRow(Batch[1])
    /\ IsBillingRow(Batch[2])
    /\ BillingOf(case_file_entries[Len(case_file_entries)].entry_id) # {}

C3_WitnessApp ==
    /\ ImportRan
    /\ results.success
    /\ request.op = "app.load_excel_to_db"
    /\ before.case_file_entries # <<>>
    /\ Len(Batch) = 2
    /\ IsBillingRow(Batch[1])
    /\ IsBillingRow(Batch[2])
    /\ Batch[1] # Batch[2]

\* a cell that holds an instant: a timestamp, or a text that parses
HoldsInstant(c) == IsTimestamp(c) \/ to_datetime_ok(c)

\* the rows of a frame that are billing-type with both times present and
\* the start not before the stop
OutOfOrderRows(df) ==
    { i \in 1..Len(df.rows) :
        /\ IsBillingRow(df.rows[i])
        /\ HoldsInstant(Cell(df, df.rows[i], "billing-start"))
        /\ HoldsInstant(Cell(df, df.rows[i], "billing-stop"))
        /\ Instant(Cell(df, df.rows[i], "billing-start"))
             >= Instant(Cell(df, df.rows[i], "billing-stop")) }

HasAllRequired(df) ==
    \A i \in 1..Len(required_columns) : required_columns[i] \in df.columns

\* C4 (as claimed): a file with a billing-type row whose billing-start is not
\* before its billing-stop is never imported: the import fails validation
\* with a billing_sequence error for that row and writes nothing, whatever
\* the row's other cells hold and whichever entry point is used.
C4_SequenceGate ==
    (/\ ImportRan
     /\ lower(request.file.ext) \in { ".xlsx", ".csv" }
     /\ HasAllRequired(request.file.df)) =>
        \A i \in OutOfOrderRows(request.file.df) :
            /\ ~results.success
            /\ results.message = "Data validation failed"
            /\ Store = before
            /\ "date_format_errors" \in DOMAIN results.errors
            /\ \E k \in 1..Len(results.errors.date_format_errors) :
                  LET e == results.errors.date_format_errors[k]
                  IN  /\ e.row = i + 1
                      /\ "issue" \in DOMAIN e
                      /\ e.issue = "billing_sequence"

----------------------------------------------------------------------------
(* Properties of the validators *)

ValidationReturned ==
    /\ results.op = "validation.validate_case_file_data"
    /\ ~Raised(results.validation)

AppValidationReturned == results.op = "app.validate_case_file_data"

Report == results.validation

\* the records of a list that carry the given issue for the given row
Issues(errors, issue, row) ==
    { k \in 1..Len(errors) :
        /\ errors[k].row = row
        /\ "issue" \in DOMAIN errors[k]
        /\ errors[k].issue = issue }

\* the billing rows with start, stop and hours present whose hours are more
\* than 0.01 off the time between start and stop
WrongDurationRows(df) ==
    { i \in 1..Len(df.rows) :
        /\ IsBillingRow(df.rows[i])
        /\ HoldsInstant(Cell(df, df.rows[i], "billing-start"))
        /\ HoldsInstant(Cell(df, df.rows[i], "billing-stop"))
        /\ Cell(df, df.rows[i], "billing-hrs").k = "num"
        /\ Abs(Instant(Cell(df, df.rows[i], "billing-stop"))
                 - Instant(Cell(df, df.rows[i], "billing-start"))
                 - Cell(df, df.rows[i], "billing-hrs").v) > 36 }

\* C5 (as claimed): a billing-type row with start, stop and hours present
\* whose hours differ from stop - start by more than 0.01 h always yields a
\* billing_duration error with the calculated and the provided hours, and
\* valid = false.
C5_DurationGate ==
    (ValidationReturned /\ HasAllRequired(request.df)) =>
        \A i \in WrongDurationRows(request.df) :
            /\ ~Report.valid
            /\ \E k \in Issues(Report.date_format_errors,
                               "billing_duration", i + 1) :
                  LET e == Report.date_format_errors[k]
                      row == request.df.rows[i]
                  IN  /\ e.calculated =
                            Instant(Cell(request.df, row, "billing-stop"))
                              - Instant(Cell(request.df, row, "billing-start"))
                      /\ e.provided = Cell(request.df, row, "billing-hrs").v

\* the category of a title as the specification states it: the text after
\* the first colon without the blanks around it, the whole title when it has
\* no colon
CategoryOf(text) ==
    IF \E i \in 1..Len(text) : text[i] = ":"
    THEN LET first == CHOOSE i \in 1..Len(text) :
                        text[i] = ":" /\ \A j \in 1..(i - 1) : text[j] # ":"
             rest == [k \in 1..(Len(text) - first) |-> text[first + k]]
             inner == { k \in 1..Len(rest) : rest[k] # " " }
         IN  IF inner = {} THEN <<>>
             ELSE LET lo == CHOOSE k \in inner : \A m \in inner : k <= m
                      hi == CHOOSE k \in inner : \A m \in inner : k >= m
                  IN  [k \in 1..(hi - lo + 1) |-> rest[lo + k - 1]]
    ELSE text

\* the billing rows with a text title whose category is not in the general
\* list
BadCategoryRows(df) ==
    { i \in 1..Len(df.rows) :
        /\ IsBillingRow(df.rows[i])
        /\ df.rows[i]["title"].k = "str"
        /\ CategoryOf(df.rows[i]["title"].v) \notin BILLING_CATEGORIES }

\* C6 (as claimed): billing_category_errors holds one record, with the row
\* number and the category attempted, for exactly the billing-type rows whose
\* category (the whole title when it has no colon) is not in the general
\* list, and then valid = false; the restricted list is never used.
C6_CategoryCheck ==
    (ValidationReturned /\ HasAllRequired(request.df)) =>
        /\ { Report.billing_category_errors[k].row :
               k \in 1..Len(Report.billing_category_errors) }
             = { i + 1 : i \in BadCategoryRows(request.df) }
        /\ \A k \in 1..Len(Report.billing_category_errors) :
              LET e == Report.billing_category_errors[k]
              IN  e.category = CategoryOf(request.df.rows[e.row - 1]["title"].v)
        /\ BadCategoryRows(request.df) # {} => ~Report.valid

\* C7 (as claimed): for every text title of a billing row, both import
\* engines store the category of the title, and the validator derives the
\* same category.
C7_CategoryAgreement ==
    results.op = "billing_category" =>
        \A i \in DOMAIN results.derived :
            LET d == results.derived[i]
            IN  /\ d.create_billing_entry = Return(CategoryOf(d.title))
                /\ d.load_case_file_to_db = Return(CategoryOf(d.title))
                /\ d.validation = d.create_billing_entry

\* C8: a report of validate_case_file_data has valid = true exactly when
\* missing_columns, invalid_types, billing_category_errors and
\* date_format_errors are all empty.
C8_ValidIffNoErrors ==
    ValidationReturned =>
        (Report.valid <=>
            /\ Report.missing_columns = <<>>
            /\ Report.invalid_types = <<>>
            /\ Report.billing_category_errors = <<>>
            /\ Report.date_format_errors = <<>>)

\* C8 witness: a report that is invalid on the strength of date errors alone.
C8_Witness ==
    /\ ValidationReturned
    /\ ~Report.valid
    /\ Report.date_format_errors # <<>>
    /\ Report.missing_columns = <<>>
    /\ Report.invalid_types = <<>>
    /\ Report.billing_category_errors = <<>>

RequiredSet == { required_columns[i] : i \in 1..Len(required_columns) }

PositionOf(col) == CHOOSE i \in 1..Len(required_columns) :
                      required_columns[i] = col

\* C9: when a required column is absent, both validators return valid =
\* false, missing_columns holding exactly the absent required columns in the
\* required order, and every other list empty; when none is absent,
\* missing_columns is empty.
C9_ColumnShortCircuit ==
    (ValidationReturned \/ AppValidationReturned) =>
        LET absent == RequiredSet \ request.df.columns
            missing == Report.missing_columns
        IN  /\ { missing[k] : k \in 1..Len(missing) } = absent
            /\ \A a, b \in 1..Len(missing) :
                  a < b => PositionOf(missing[a]) < PositionOf(missing[b])
            /\ absent # {} =>
                  /\ ~Report.valid
                  /\ ValidationReturned =>
                        /\ Report.invalid_types = <<>>
                        /\ Report.billing_category_errors = <<>>
                        /\ Report.date_format_errors = <<>>
                        /\ Report.sample_errors = <<>>
                  /\ AppValidationReturned => Report.invalid_entries = <<>>

\* C9 witness: a frame that lacks two required columns and holds a row the
\* later checks would report.
C9_Witness ==
    /\ ValidationReturned
    /\ Cardinality(RequiredSet \ request.df.columns) = 2
    /\ \E i \in 1..Len(request.df.rows) :
          IsInvalidType(request.df.rows[i]["type"])
    /\ Len(Report.missing_columns) = 2

\* the row numbers of a list of records, in order
RowNumbers(errors) == [k \in 1..Len(errors) |-> errors[k].row]

\* the numbers, counted from 2, of the rows with an empty or unknown type
RECURSIVE InvalidTypeRowNumbers(_, _)
InvalidTypeRowNumbers(df, i) ==
    IF i > Len(df.rows) THEN <<>>
    ELSE (IF df.rows[i]["type"].k = "str"
             /\ df.rows[i]["type"].v \in VALID_ENTRY_TYPES
          THEN <<>> ELSE << (i - 1) + 2 >>)
         \o InvalidTypeRowNumbers(df, i + 1)

\* C10 (as claimed): with every required column present, each validator
\* that gates an import records a type violation for exactly the rows whose
\* type is empty or not one of the 7 tags, numbered i + 2 for the row at
\* 0-based position i.
C10_TypeRows ==
    /\ (ValidationReturned /\ HasAllRequired(request.df)) =>
          RowNumbers(Report.invalid_types)
             = InvalidTypeRowNumbers(request.df, 1)
    /\ (AppValidationReturned /\ HasAllRequired(request.df)) =>
          RowNumbers(Report.invalid_entries)
             = InvalidTypeRowNumbers(request.df, 1)

----------------------------------------------------------------------------
(* Properties of the import operations: the gates and the connection *)

\* the extensions the loaders read, compared without regard to case
Unsupported(ext) == lower(ext) \notin { ".xlsx", ".xls", ".xlsm", ".csv" }

\* C11: an import of a file whose extension is none of .xlsx, .xls, .xlsm,
\* .csv fails with an unsupported-file-type result, opens no store connection
\* and leaves the store as it was.
C11_UnsupportedFormat ==
    (ImportRan /\ Unsupported(request.file.ext)) =>
        /\ ~results.success
        /\ \/ results.message = "Unsupported file type"
           \/ results.errors = << "Unsupported file type" >>
        /\ results.entries_added = 0
        /\ connections = 0
        /\ Store = before

\* C11 witness: a .txt file handed to excel_loader.load_excel_to_db when the
\* store already holds entries.
C11_Witness ==
    /\ ImportRan
    /\ request.op = "excel_loader.load_excel_to_db"
    /\ request.file.ext = ".txt"
    /\ before.case_file_entries # <<>>
    /\ ~results.success

\* the report of the validator that gates the entry point of the last import
GateReport ==
    IF request.op = "app.load_excel_to_db"
    THEN app_validate_case_file_data(request.file.df)
    ELSE validate_case_file_data(request.file.df)

\* C12: when the validator returns valid = false for the loaded table, the
\* import returns success = false, the message 'Data validation failed' and
\* the report as its errors, opens no store connection and leaves both
\* tables as they were.
C12_ValidationGate ==
    (/\ ImportRan
     /\ ~Unsupported(request.file.ext)
     /\ ~Raised(GateReport)
     /\ ~GateReport.valid) =>
        /\ ~results.success
        /\ results.message = "Data validation failed"
        /\ results.errors = GateReport
        /\ results.entries_added = 0
        /\ connections = 0
        /\ Store = before

\* C12 witness: excel_loader.load_excel_to_db turns down a table with every
\* required column and a row of unknown type, when the store holds entries.
C12_Witness ==
    /\ ImportRan
    /\ request.op = "excel_loader.load_excel_to_db"
    /\ ~Unsupported(request.file.ext)
    /\ HasAllRequired(request.file.df)
    /\ before.case_file_entries # <<>>
    /\ ~Raised(GateReport)
    /\ GateReport.invalid_types # <<>>
    /\ results.message = "Data validation failed"

\* C15: every row of case_file_entries has a type that is one of the 7
\* entry-type tags, after any sequence of imports, whether they succeeded,
\* were turned down by validation or failed while writing.
C15_StoredTypes ==
    \A i \in 1..Len(case_file_entries) :
        /\ case_file_entries[i].type.k = "str"
        /\ case_file_entries[i].type.v \in VALID_ENTRY_TYPES

\* C15 witness: the store holds entries and the last import, of a table with
\* every required column and a row of unknown type, was turned down.
C15_Witness ==
    /\ ImportRan
    /\ case_file_entries # <<>>
    /\ ~Unsupported(request.file.ext)
    /\ HasAllRequired(request.file.df)
    /\ \E i \in 1..Len(Batch) : IsInvalidType(Batch[i]["type"])
    /\ \E i \in 1..Len(Batch) : ~IsInvalidType(Batch[i]["type"])
    /\ ~results.success

\* C16 (as claimed): every billing row references, through entry_id, an
\* entry that exists, is billing-type and has the same case_id, and every
\* billing-type entry has exactly one such billing row, after any sequence
\* of imports, those that fail part-way included.
C16_BillingOwnership ==
    /\ \A j \in 1..Len(billing_entries) :
          \E i \in 1..Len(case_file_entries) :
              /\ case_file_entries[i].entry_id = billing_entries[j].entry_id
              /\ case_file_entries[i].type = Str("billing-type")
              /\ case_file_entries[i].case_id = billing_entries[j].case_id
    /\ \A i \in 1..Len(case_file_entries) :
          case_file_entries[i].type = Str("billing-type") =>
              Cardinality(BillingOf(case_file_entries[i].entry_id)) = 1

\* C17 (as claimed): an import that opens a store connection closes it
\* before it returns, on the success path and on every failure path; no
\* connection is open after the operation.
C17_ConnectionScoping ==
    ImportRan => open_connections = 0

\* the optional billing columns a table does not have
AbsentBillingColumns(df) ==
    { billing_columns[i] : i \in 1..Len(billing_columns) } \ df.columns

\* the field of a billing row that a source column fills
BillingField(col) ==
    CASE col = "billing-start" -> "billing_start"
      [] col = "billing-stop" -> "billing_stop"
      [] col = "billing-hrs" -> "billing_hours"

\* C19 (as claimed): a table that passed validation, has billing-type rows
\* and lacks an optional billing column is imported all the same: the
\* import fails only when the store rejects a statement, and the billing
\* rows it adds hold null in the fields of the absent columns.
C19_OptionalBillingColumns ==
    (/\ ImportRan
     /\ ~Unsupported(request.file.ext)
     /\ ~Raised(GateReport)
     /\ GateReport.valid
     /\ BillingRowsOf(Batch) # {}
     /\ AbsentBillingColumns(request.file.df) # {}) =>
        /\ ~results.success => results.errors = << "sqlite3.Error" >>
        /\ results.success =>
              /\ Len(NewBilling) = Cardinality(BillingRowsOf(Batch))
              /\ \A j \in 1..Len(NewBilling) :
                    \A col \in AbsentBillingColumns(request.file.df) :
                        isna(NewBilling[j][BillingField(col)])

----------------------------------------------------------------------------
(* Reading the entries back *)

\* handle_get_case_file_entries: SELECT * FROM case_file_entries
\* WHERE case_id = ?
get_case_file_entries(entries, case_id) ==
    SelectSeq(entries, LAMBDA e : e.case_id = case_id)

\* C13: after a successful import, the entries read back for the import's
\* case_id are entries_added more than before it, and entries_added is the
\* number of rows of the table.
C13_RoundTripCount ==
    (ImportRan /\ results.success) =>
        /\ results.entries_added = Len(Batch)
        /\ Len(get_case_file_entries(case_file_entries, request.case_id))
             = Len(get_case_file_entries(before.case_file_entries,
                                         request.case_id))
               + results.entries_added

\* C13 witness: a successful import of two rows for a case that already has
\* two entries.
C13_Witness ==
    /\ ImportRan
    /\ results.success
    /\ results.entries_added = 2
    /\ Len(get_case_file_entries(before.case_file_entries,
                                 request.case_id)) = 2

----------------------------------------------------------------------------
(* Properties of the validators: repetition and samples *)

FirstFive(s) == [k \in 1..(IF Len(s) < 5 THEN Len(s) ELSE 5) |-> s[k]]

\* C18: in a report made after the column check passed, each list of
\* sample_errors is the first min(5, n) records of the full list, in order,
\* and the full list of type errors holds a record for every offending row.
C18_SampleErrors ==
    (ValidationReturned /\ HasAllRequired(request.df)) =>
        /\ Report.sample_errors.invalid_types = FirstFive(Report.invalid_types)
        /\ Report.sample_errors.date_format_errors
             = FirstFive(Report.date_format_errors)
        /\ Report.sample_errors.billing_category_errors
             = FirstFive(Report.billing_category_errors)
        /\ RowNumbers(Report.invalid_types)
             = InvalidTypeRowNumbers(request.df, 1)

\* C18 witness: a report with six type errors and more than five date
\* errors, of which the samples keep five.
C18_Witness ==
    /\ ValidationReturned
    /\ Len(Report.invalid_types) = 6
    /\ Len(Report.date_format_errors) > 5
    /\ Len(Report.sample_errors.invalid_types) = 5
    /\ Len(Report.sample_errors.date_format_errors) = 5

\* a report with more than five category errors
C18_WitnessCategories ==
    /\ ValidationReturned
    /\ Len(Report.billing_category_errors) > 5
    /\ Len(Report.sample_errors.billing_category_errors) = 5

----------------------------------------------------------------------------
(* app.py: the request/response loop *)

\* what a call printed, whether it raised, the store it left and the
\* connections it opened and closed
Handled(printed, store, opened, closed) ==
    [out |-> printed.out, raised |-> printed.raised, store |-> store,
     opened |-> opened, closed |-> closed]

\* an exception raised before anything was printed
Raising == [out |-> <<>>, raised |-> TRUE]

\* respond(data): json.dumps(data) raises TypeError on a value it cannot
\* encode, before print is reached
respond(data, encodable) ==
    IF encodable THEN [out |-> << data >>, raised |-> FALSE] ELSE Raising

\* respond_with_error(message): the error object is always encodable
respond_with_error(message) ==
    respond([error |-> [code |-> 0 - 1, message |-> message]], TRUE)

\* the second of two calls made one after the other, unless the first raised
Then(first, second) ==
    IF first.raised THEN first
    ELSE [second EXCEPT !.out = first.out \o second.out]

\* params.get raises AttributeError when parameters is not a JSON object
IsObject(v) == v.k = "object"

handle_check_database_health(store, params, env) ==
    IF ~IsObject(params) THEN Handled(Raising, store, 0, 0)
    ELSE IF ~params.given
    THEN Handled(respond_with_error("Database path must be provided"),
                 store, 0, 0)
    ELSE \* db_health_check catches sqlite3.Error and returns its results
         Handled(respond([can_connect |-> ~env.sqlite_error], env.encodable),
                 store, 1, IF env.sqlite_error THEN 0 ELSE 1)

handle_initialize_database(store, params, env) ==
    IF ~IsObject(params) THEN Handled(Raising, store, 0, 0)
    ELSE IF ~params.given
    THEN Handled(respond_with_error("Database path must be provided"),
                 store, 0, 0)
    ELSE \* initialize_database catches every exception and returns results
         Handled(respond([success |-> ~env.sqlite_error], env.encodable),
                 store, 1, IF env.sqlite_error THEN 0 ELSE 1)

\* a slip: no return after the error response
handle_import_excel_data_without_return(store, params, env) ==
    IF ~IsObject(params) THEN Handled(Raising, store, 0, 0)
    ELSE LET outcome == app_load_excel_to_db(store, params.file,
                                             params.case_id, env.fault)
             refusal == IF params.given THEN [out |-> <<>>, raised |-> FALSE]
                        ELSE respond_with_error(
                           "File path, database path, and case ID must be provided")
         IN  Handled(Then(refusal, respond(outcome.results, env.encodable)),
                     outcome.store, outcome.opened, outcome.closed)

handle_import_excel_data(store, params, env) ==
    IF ~IsObject(params) THEN Handled(Raising, store, 0, 0)
    ELSE IF ~params.given
    THEN Handled(respond_with_error(
                    "File path, database path, and case ID must be provided"),
                 store, 0, 0)
    ELSE LET outcome == app_load_excel_to_db(store, params.file,
                                             params.case_id, env.fault)
         IN  Handled(respond(outcome.results, env.encodable),
                     outcome.store, outcome.opened, outcome.closed)

\* the shape of the three read handlers: the query and the response are
\* inside one try, whose except answers with an error
ReadHandler(store, params, env, refusal, data, failure) ==
    IF ~IsObject(params) THEN Handled(Raising, store, 0, 0)
    ELSE IF ~params.given THEN Handled(respond_with_error(refusal), store, 0, 0)
    ELSE IF env.sqlite_error
    THEN Handled(respond_with_error(failure), store, 1, 0)
    ELSE IF respond(data, env.encodable).raised
    THEN Handled(respond_with_error(failure), store, 1, 1)
    ELSE Handled(respond(data, env.encodable), store, 1, 1)

handle_get_case_files(store, params, env) ==
    ReadHandler(store, params, env, "Database path must be provided",
                [case_files |-> "rows"], "Error retrieving case files")

handle_get_case_file_entries(store, params, env) ==
    ReadHandler(store, params, env,
                "Database path and case ID must be provided",
                [entries |-> IF IsObject(params)
                             THEN get_case_file_entries(
                                     store.case_file_entries, params.case_id)
                             ELSE <<>>],
                "Error retrieving case file entries")

handle_generate_billing_report(store, params, env) ==
    ReadHandler(store, params, env,
                "Database path and case ID must be provided",
                [billing_entries |->
                    IF IsObject(params)
                    THEN SelectSeq(store.billing_entries,
                                   LAMBDA b : b.case_id = params.case_id)
                    ELSE <<>>],
                "Error generating billing report")

function_names ==
    { "check_database_health", "initialize_database", "import_excel_data",
      "get_case_files", "get_case_file_entries", "generate_billing_report" }

function_map(name, store, params, env) ==
    CASE name = "check_database_health" ->
            handle_check_database_health(store, params, env)
      [] name = "initialize_database" ->
            handle_initialize_database(store, params, env)
      [] name = "import_excel_data" ->
            handle_import_excel_data(store, params, env)
      [] name = "get_case_files" ->
            handle_get_case_files(store, params, env)
      [] name = "get_case_file_entries" ->
            handle_get_case_file_entries(store, params, env)
      [] name = "generate_billing_report" ->
            handle_generate_billing_report(store, params, env)

\* the except of process_mcp_request and of main: one error response after
\* whatever was printed before the exception
Caught(handled, message) ==
    IF handled.raised
    THEN [handled EXCEPT !.out = @ \o respond_with_error(message).out,
                         !.raised = FALSE]
    ELSE handled

process_mcp_request(store, event, env) ==
    Caught(
        IF ~IsObject(event) THEN Handled(Raising, store, 0, 0)
        ELSE IF event.type # "function"
        THEN Handled(respond_with_error("Unsupported event type"), store, 0, 0)
        ELSE IF event.name \in function_names
        THEN function_map(event.name, store, event.parameters, env)
        ELSE Handled(respond_with_error("Unknown function"), store, 0, 0),
        "Error processing request")

\* one turn of the loop of main over the lines of stdin
main(store, line, env) ==
    IF ~line.json
    THEN Handled(respond_with_error("Invalid JSON input"), store, 0, 0)
    ELSE Caught(process_mcp_request(store, line.event, env),
                "Unexpected error")

----------------------------------------------------------------------------
(* The lines the server reads *)

ServerFile ==
    [ext |-> ".xlsx",
     df |-> [columns |-> AllColumns,
             rows |-> << BillingRow(GoodDate, ClientMeetingTitle, InOrder) >>]]

RejectedFile ==
    [ext |-> ".xlsx",
     df |-> [columns |-> AllColumns,
             rows |-> << OtherRow(Str("memo"), GoodDate) >>]]

\* parameters: not a JSON object, a required one missing (the path is then ""
\* and the case 0), or all given
NoParameters ==
    [k |-> "object", given |-> FALSE,
     file |-> [ext |-> "", df |-> [columns |-> {}, rows |-> <<>>]],
     case_id |-> 0]

Parameters(file) ==
    [k |-> "object", given |-> TRUE, file |-> file, case_id |-> 1]

Function(name, parameters) ==
    [k |-> "object", type |-> "function", name |-> name,
     parameters |-> parameters]

Events ==
    { [k |-> "array"],
      [k |-> "object", type |-> "notification", name |-> "import_excel_data",
       parameters |-> Parameters(ServerFile)],
      Function("drop_database", Parameters(ServerFile)),
      Function("import_excel_data", Parameters(RejectedFile)) }
    \cup { Function(name, parameters) :
             name \in function_names,
             parameters \in { [k |-> "array"], NoParameters,
                              Parameters(ServerFile) } }

Lines ==
    { [json |-> FALSE] } \cup { [json |-> TRUE, event |-> e] : e \in Events }

\* what the surroundings do during one request: the store raises on the
\* query, the result holds a value json.dumps cannot encode, or the store
\* rejects the first statement of a write
Environments ==
    { [sqlite_error |-> FALSE, encodable |-> TRUE, fault |-> 0],
      [sqlite_error |-> TRUE, encodable |-> TRUE, fault |-> 0],
      [sqlite_error |-> FALSE, encodable |-> FALSE, fault |-> 0],
      [sqlite_error |-> FALSE, encodable |-> TRUE, fault |-> 1] }

InitServer == Init

\* for line in sys.stdin: one line is read and served
MainLoop ==
    \E line \in Lines, env \in Environments :
        LET served == main(Store, line, env)
        IN  /\ lines_read < MaxLines
            /\ lines_read' = lines_read + 1
            /\ stdout' = stdout \o
                 [k \in 1..Len(served.out) |->
                     [line |-> lines_read + 1, response |-> served.out[k]]]
            /\ request' = [op |-> "main", line |-> line, env |-> env]
            /\ results' = [op |-> "main", raised |-> served.raised]
            /\ before' = Store
            /\ case_file_entries' = served.store.case_file_entries
            /\ billing_entries' = served.store.billing_entries
            /\ open_connections' =
                 open_connections + served.opened - served.closed
            /\ connections' = served.opened
            /\ UNCHANGED imports

NextServer == MainLoop

SpecServer == InitServer /\ [][NextServer]_vars

----------------------------------------------------------------------------
(* Properties of the request/response loop *)

IsError(response) == "error" \in DOMAIN response

\* the request of a line reaches a handler with its parameters given
ReachesHandler(line) ==
    /\ line.json
    /\ line.event.k = "object"
    /\ line.event.type = "function"
    /\ line.event.name \in function_names
    /\ line.event.parameters.k = "object"
    /\ line.event.parameters.given

\* the handler of a line raises in the given surroundings: a result that
\* cannot be encoded, or a query the store fails (the health check and the
\* initialisation and the import return their failures as results)
HandlerRaises(line, env) ==
    \/ ~env.encodable
    \/ /\ env.sqlite_error
       /\ line.event.name \in { "get_case_files", "get_case_file_entries",
                                "generate_billing_report" }

\* C20: every line read has exactly one response, printed before the next
\* line is read; it is an error response for invalid JSON, an event that is
\* not a function call, an unknown function, missing parameters and a
\* handler that raised, and the handler's result otherwise; no exception
\* leaves the loop, so the lines after a failing one are served.
C20_OneResponsePerLine ==
    /\ Len(stdout) = lines_read
    /\ \A n \in 1..Len(stdout) : stdout[n].line = n
    /\ request.op = "main" =>
          /\ ~results.raised
          /\ stdout # <<>>
          /\ IsError(stdout[Len(stdout)].response)
               <=> (~ReachesHandler(request.line)
                    \/ HandlerRaises(request.line, request.env))

\* C20 witness: a second line, an import that writes to the store, is
\* answered with the handler's result after the first line was answered
\* with an error.
C20_Witness ==
    /\ lines_read = 2
    /\ Len(stdout) = 2
    /\ IsError(stdout[1].response)
    /\ ~IsError(stdout[2].response)
    /\ request.op = "main"
    /\ ReachesHandler(request.line)
    /\ request.line.event.name = "import_excel_data"
    /\ case_file_entries # <<>>

====
